---------------------------- MODULE Spec2Model ----------------------------
(***************************************************************************)
(* A model of the course-selling REST backend (src/main.py, src/schemas.py) *)
(* as a state machine over the three collections of the document store.    *)
(*                                                                         *)
(* Strings that travel over the wire as identifiers are sequences of       *)
(* one-character strings, so that parsing them into the store's native     *)
(* identifier (bson.ObjectId) and rendering them back are real             *)
(* conversions.  Money is an integer number of cents.  A document is a     *)
(* record whose domain is the set of fields it has, so that $set merges    *)
(* and absent fields are what they are in the store.                       *)
(***************************************************************************)
EXTENDS Integers, Sequences, FiniteSets, TLC

VARIABLES
    dbCourse,    \* db["course"]: the documents in store-native (insertion) order
    dbLesson,    \* db["lesson"]
    dbOrder,     \* db["order"]
    nCourse,     \* how many course documents were ever inserted (identifier generator)
    resp,        \* the response of the last completed request
    sumPc,       \* position of the in-flight admin_summary request
    sumLoc,      \* admin_summary's local variables read so far
    reqBody,     \* history: the body of the last completed request
    lessonPath,  \* history: the path identifier each stored lesson was created under
    seen,        \* history: aggregates of every store state since admin_summary began
    during       \* history: how many other requests completed since admin_summary began

vars == <<dbCourse, dbLesson, dbOrder, nCourse, resp, sumPc, sumLoc,
          reqBody, lessonPath, seen, during>>

store == <<dbCourse, dbLesson, dbOrder>>

-----------------------------------------------------------------------------
(* Bounds of the model.                                                    *)

MaxCourses == 2
MaxLessons == 3
MaxOrders == 2
MaxBasicLessons == 1
MaxBasicOrders == 1
MaxInterleaved == 1

-----------------------------------------------------------------------------
(* Identifiers: bson.ObjectId, a 12-byte value written as 24 hex digits.   *)

OidHexLen == 24

HexLower == <<"0","1","2","3","4","5","6","7","8","9","a","b","c","d","e","f">>
HexUpper == <<"0","1","2","3","4","5","6","7","8","9","A","B","C","D","E","F">>

HexChars == { HexLower[i] : i \in 1..16 } \cup { HexUpper[i] : i \in 1..16 }

IsHexChar(c) == c \in HexChars

\* The value of each hex digit, either case.
HexValues ==
    [c \in HexChars |-> CHOOSE n \in 0..15 : HexLower[n + 1] = c \/ HexUpper[n + 1] = c]

HexVal(c) == HexValues[c]

\* ObjectId(s) raises InvalidId unless s has 24 characters, all hex digits.
ObjectIdValid(s) == Len(s) = OidHexLen /\ \A i \in 1..Len(s) : IsHexChar(s[i])

\* ObjectId(s): the native identifier, here its 24 nibbles.
ObjectId(s) == [i \in 1..OidHexLen |-> HexVal(s[i])]

\* str(oid): always lower-case hex.
OidStr(oid) == [i \in 1..OidHexLen |-> HexLower[oid[i] + 1]]

\* The identifier the store assigns to the k-th document of a collection:
\* fresh, and distinct across collections (tag) and within one (k).
NewOid(tag, k) ==
    [i \in 1..OidHexLen |->
        IF i = OidHexLen THEN (9 + k) % 16
        ELSE IF i = OidHexLen - 1 THEN tag
        ELSE 0]

CourseTag == 1
LessonTag == 2
OrderTag == 3

-----------------------------------------------------------------------------
(* Entity schemas (pydantic models).                                       *)

None == "<None>"

NoBody == [f \in {} |-> None]

Merge(doc, upd) ==
    [f \in DOMAIN doc \cup DOMAIN upd |-> IF f \in DOMAIN upd THEN upd[f] ELSE doc[f]]

Restrict(r, fields) == [f \in DOMAIN r \cap fields |-> r[f]]

CourseDefaults ==
    [subtitle |-> None, description |-> None, thumbnail_url |-> None,
     category |-> None, level |-> None, published |-> FALSE, tags |-> <<>>]

CourseFields == {"title", "price"} \cup DOMAIN CourseDefaults

\* Course(**body): title and price are required, price >= 0.
CourseValid(body) ==
    /\ {"title", "price"} \subseteq DOMAIN body
    /\ body.price >= 0

\* Course(**body).model_dump(): every field of the schema, the ones the body
\* does not give at their defaults; fields the schema does not know are dropped.
CourseDump(body) == Merge(CourseDefaults, Restrict(body, CourseFields))

LessonDefaults ==
    [content |-> None, video_url |-> None, order |-> 0, free_preview |-> FALSE]

LessonFields == {"course_id", "title"} \cup DOMAIN LessonDefaults

LessonValid(body) ==
    /\ {"course_id", "title"} \subseteq DOMAIN body
    /\ ("order" \in DOMAIN body => body.order >= 0)

LessonDump(body) == Merge(LessonDefaults, Restrict(body, LessonFields))

OrderInFields == {"course_id", "buyer_name", "buyer_email"}

OrderInValid(body) == OrderInFields \subseteq DOMAIN body

\* OrderIn(**body): only the three declared fields are kept.
OrderInDump(body) == Restrict(body, OrderInFields)

\* Order(...): amount >= 0 is validated.
OrderValid(doc) == doc.amount >= 0

-----------------------------------------------------------------------------
(* The document store.                                                     *)

RECURSIVE SelectSeq2(_, _, _)
\* The documents of a collection that match an exact-match filter, in order.
SelectSeq2(coll, filter, i) ==
    IF i > Len(coll) THEN <<>>
    ELSE IF \A f \in DOMAIN filter : f \in DOMAIN coll[i] /\ coll[i][f] = filter[f]
         THEN <<coll[i]>> \o SelectSeq2(coll, filter, i + 1)
         ELSE SelectSeq2(coll, filter, i + 1)

NoFilter == [f \in {} |-> None]

\* collection.find(filter), materialised.
Find(coll, filter) == SelectSeq2(coll, filter, 1)

\* collection.count_documents(filter)
count_documents(coll, filter) == Len(Find(coll, filter))

\* collection.find_one({"_id": oid}): the first match, or <<>> for None.
find_one(coll, oid) ==
    LET m == Find(coll, [_id |-> oid])
    IN IF m = <<>> THEN <<>> ELSE <<m[1]>>

\* Index of the first document with the identifier, 0 if there is none.
FirstIndex(coll, oid) ==
    IF \E i \in 1..Len(coll) : coll[i]._id = oid
    THEN CHOOSE i \in 1..Len(coll) :
            /\ coll[i]._id = oid
            /\ \A j \in 1..(i - 1) : coll[j]._id # oid
    ELSE 0

\* collection.update_one({"_id": oid}, {"$set": data}): the collection after it.
update_one(coll, oid, data) ==
    LET k == FirstIndex(coll, oid)
    IN IF k = 0 THEN coll ELSE [coll EXCEPT ![k] = Merge(coll[k], data)]

\* A delete that, on a match, drops the last document instead of the matched one.
delete_one_last(coll, oid) ==
    IF FirstIndex(coll, oid) = 0 THEN coll ELSE SubSeq(coll, 1, Len(coll) - 1)

\* collection.delete_one({"_id": oid}): the collection after it.
delete_one(coll, oid) ==
    LET k == FirstIndex(coll, oid)
    IN IF k = 0 THEN coll
       ELSE [i \in 1..(Len(coll) - 1) |-> IF i < k THEN coll[i] ELSE coll[i + 1]]

\* create_document(collection, record): inserts the record with a fresh identifier.
create_document(coll, oid, data) == Append(coll, Merge(data, [_id |-> oid]))

\* get_documents(collection, filter): the matches in store-native order. The
\* callers (list_courses, list_lessons) project _id into the string field id.
get_documents(coll, filter) == Find(coll, filter)


-----------------------------------------------------------------------------
(* Responses.  status is the HTTP status; 500 is an unhandled exception.   *)

Response(op, arg, status, body) ==
    [op |-> op, arg |-> arg, status |-> status, body |-> body]

\* d["id"] = str(d.pop("_id")); CourseOut(**d)
CourseOut(doc) == Merge(Restrict(doc, CourseFields), [id |-> OidStr(doc._id)])

\* d["id"] = str(d.pop("_id")); LessonOut(**d)
LessonOut(doc) == Merge(Restrict(doc, LessonFields), [id |-> OidStr(doc._id)])

-----------------------------------------------------------------------------
(* Courses.  A handler's course argument is a body that passed the schema.  *)

create_course(course) ==
    LET oid == NewOid(CourseTag, nCourse + 1)
    IN /\ dbCourse' = create_document(dbCourse, oid, CourseDump(course))
       /\ nCourse' = nCourse + 1
       /\ resp' = Response("create_course", <<>>, 200, [id |-> OidStr(oid)])
       /\ UNCHANGED <<dbLesson, dbOrder, lessonPath>>

get_course(course_id) ==
    /\ IF ~ObjectIdValid(course_id)
       THEN resp' = Response("get_course", course_id, 400, "Invalid course id")
       ELSE LET doc == find_one(dbCourse, ObjectId(course_id))
            IN IF doc = <<>>
               THEN resp' = Response("get_course", course_id, 404, "Course not found")
               ELSE resp' = Response("get_course", course_id, 200, CourseOut(doc[1]))
    /\ UNCHANGED <<dbCourse, dbLesson, dbOrder, nCourse, lessonPath>>

update_course(course_id, course, now) ==
    /\ IF ~ObjectIdValid(course_id)
       THEN /\ resp' = Response("update_course", course_id, 400, "Invalid course id")
            /\ UNCHANGED dbCourse
       ELSE LET obj_id == ObjectId(course_id)
                update_data == Merge(CourseDump(course), [updated_at |-> now])
                matched_count == IF FirstIndex(dbCourse, obj_id) = 0 THEN 0 ELSE 1
            IN /\ dbCourse' = update_one(dbCourse, obj_id, update_data)
               /\ IF matched_count = 0
                  THEN resp' = Response("update_course", course_id, 404, "Course not found")
                  ELSE resp' = Response("update_course", course_id, 200, "ok")
    /\ UNCHANGED <<dbLesson, dbOrder, nCourse, lessonPath>>

\* A delete that also drops the lessons created under the identifier.
delete_course_cascade(course_id) ==
    /\ IF ~ObjectIdValid(course_id)
       THEN /\ resp' = Response("delete_course", course_id, 400, "Invalid course id")
            /\ UNCHANGED <<dbCourse, dbLesson, lessonPath>>
       ELSE /\ dbCourse' = delete_one(dbCourse, ObjectId(course_id))
            /\ IF FirstIndex(dbCourse, ObjectId(course_id)) = 0
               THEN /\ resp' = Response("delete_course", course_id, 404, "Course not found")
                    /\ UNCHANGED <<dbLesson, lessonPath>>
               ELSE /\ resp' = Response("delete_course", course_id, 200, "ok")
                    /\ dbLesson' = SelectSeq(dbLesson, LAMBDA l : l.course_id # course_id)
                    /\ lessonPath' = SelectSeq(lessonPath, LAMBDA c : c # course_id)
    /\ UNCHANGED <<dbOrder, nCourse>>

\* A delete that answers a malformed identifier like an unknown one.
delete_course_unparsed(course_id) ==
    /\ IF ~ObjectIdValid(course_id)
       THEN /\ resp' = Response("delete_course", course_id, 404, "Course not found")
            /\ UNCHANGED dbCourse
       ELSE /\ dbCourse' = delete_one(dbCourse, ObjectId(course_id))
            /\ IF FirstIndex(dbCourse, ObjectId(course_id)) = 0
               THEN resp' = Response("delete_course", course_id, 404, "Course not found")
               ELSE resp' = Response("delete_course", course_id, 200, "ok")
    /\ UNCHANGED <<dbLesson, dbOrder, nCourse, lessonPath>>

delete_course(course_id) ==
    /\ IF ~ObjectIdValid(course_id)
       THEN /\ resp' = Response("delete_course", course_id, 400, "Invalid course id")
            /\ UNCHANGED dbCourse
       ELSE LET obj_id == ObjectId(course_id)
                deleted_count == IF FirstIndex(dbCourse, obj_id) = 0 THEN 0 ELSE 1
            IN /\ dbCourse' = delete_one(dbCourse, obj_id)
               /\ IF deleted_count = 0
                  THEN resp' = Response("delete_course", course_id, 404, "Course not found")
                  ELSE resp' = Response("delete_course", course_id, 200, "ok")
    /\ UNCHANGED <<dbLesson, dbOrder, nCourse, lessonPath>>

\* The framework's answer to a body that violates the schema: the handler is
\* not entered.
Unprocessable(op, arg) ==
    /\ resp' = Response(op, arg, 422, "validation error")
    /\ UNCHANGED <<dbCourse, dbLesson, dbOrder, nCourse, lessonPath>>

-----------------------------------------------------------------------------
(* Lessons.                                                                *)

\* A create that keeps the body's course_id.
create_lesson_body_id(course_id, lesson) ==
    LET oid == NewOid(LessonTag, Len(dbLesson) + 1)
    IN /\ dbLesson' = create_document(dbLesson, oid, LessonDump(lesson))
       /\ lessonPath' = Append(lessonPath, course_id)
       /\ resp' = Response("create_lesson", course_id, 200, [id |-> OidStr(oid)])
       /\ UNCHANGED <<dbCourse, dbOrder, nCourse>>

create_lesson(course_id, lesson) ==
    LET data == Merge(LessonDump(lesson), [course_id |-> course_id])
        oid == NewOid(LessonTag, Len(dbLesson) + 1)
    IN /\ dbLesson' = create_document(dbLesson, oid, data)
       /\ lessonPath' = Append(lessonPath, course_id)
       /\ resp' = Response("create_lesson", course_id, 200, [id |-> OidStr(oid)])
       /\ UNCHANGED <<dbCourse, dbOrder, nCourse>>

\* x placed before the elements of equal key: a sort that is not stable.
InsertByOrderStrict(s, x) ==
    LET k == Cardinality({ i \in 1..Len(s) : s[i].order < x.order })
    IN SubSeq(s, 1, k) \o <<x>> \o SubSeq(s, k + 1, Len(s))

\* x placed behind every element of the sorted s whose key is not greater.
InsertByOrder(s, x) ==
    LET k == Cardinality({ i \in 1..Len(s) : s[i].order <= x.order })
    IN SubSeq(s, 1, k) \o <<x>> \o SubSeq(s, k + 1, Len(s))

RECURSIVE SortByOrder(_)
\* result.sort(key=lambda x: x.order): ascending and stable.
SortByOrder(s) ==
    IF s = <<>> THEN <<>>
    ELSE InsertByOrder(SortByOrder(SubSeq(s, 1, Len(s) - 1)), s[Len(s)])

\* What list_lessons returns for a path identifier in the current store.
ListLessonsResult(coll, course_id) ==
    LET docs == get_documents(coll, [course_id |-> course_id])
        result == [i \in 1..Len(docs) |-> LessonOut(docs[i])]
    IN SortByOrder(result)

list_lessons(course_id) ==
    /\ resp' = Response("list_lessons", course_id, 200,
                        ListLessonsResult(dbLesson, course_id))
    /\ UNCHANGED <<dbCourse, dbLesson, dbOrder, nCourse, lessonPath>>

-----------------------------------------------------------------------------
(* Orders (mock checkout).                                                 *)

\* The price read under the wrong key.
PriceOfWrongKey(course) == IF "amount" \in DOMAIN course THEN course.amount ELSE 0

\* float(course.get("price", 0))
PriceOf(course) == IF "price" \in DOMAIN course THEN course.price ELSE 0

create_order(order) ==
    IF ~ObjectIdValid(order.course_id)
    THEN \* ObjectId(order.course_id) raises InvalidId outside any try
         /\ resp' = Response("create_order", order.course_id, 500, "InvalidId")
         /\ UNCHANGED <<dbCourse, dbLesson, dbOrder, nCourse, lessonPath>>
    ELSE LET course == find_one(dbCourse, ObjectId(order.course_id))
         IN IF course = <<>>
            THEN /\ resp' = Response("create_order", order.course_id, 404,
                                     "Course not found")
                 /\ UNCHANGED <<dbCourse, dbLesson, dbOrder, nCourse, lessonPath>>
            ELSE LET amount == PriceOf(course[1])
                     order_doc == [course_id |-> order.course_id,
                                   buyer_name |-> order.buyer_name,
                                   buyer_email |-> order.buyer_email,
                                   amount |-> amount,
                                   status |-> "paid"]
                     oid == NewOid(OrderTag, Len(dbOrder) + 1)
                 IN IF ~OrderValid(order_doc)
                    THEN /\ resp' = Response("create_order", order.course_id, 500,
                                             "ValidationError")
                         /\ UNCHANGED <<dbCourse, dbLesson, dbOrder, nCourse,
                                        lessonPath>>
                    ELSE /\ dbOrder' = create_document(dbOrder, oid, order_doc)
                         /\ resp' = Response("create_order", order.course_id, 200,
                                             [id |-> OidStr(oid), status |-> "paid"])
                         /\ UNCHANGED <<dbCourse, dbLesson, nCourse, lessonPath>>

-----------------------------------------------------------------------------
(* Admin summary: five store round trips, one step each.                   *)

NoLocals == [f \in {} |-> 0]

RECURSIVE SumAmount(_)
\* revenue += float(o.get("amount", 0)), over a cursor's documents. A float
\* is a fixed-point number of tenths of a cent here.
SumAmount(docs) ==
    IF docs = <<>> THEN 0
    ELSE (IF "amount" \in DOMAIN docs[1] THEN docs[1].amount * 10 ELSE 0)
         + SumAmount(Tail(docs))

\* round(revenue): to whole units of currency, given back in cents.
RoundWhole(x) ==
    LET q == x \div 1000
        r == x % 1000
    IN (IF r > 500 \/ (r = 500 /\ q % 2 = 1) THEN q + 1 ELSE q) * 100

\* round(revenue, 2): to whole cents, halves to the even cent.
Round2(x) ==
    LET q == x \div 10
        r == x % 10
    IN IF r > 5 \/ (r = 5 /\ q % 2 = 1) THEN q + 1 ELSE q

admin_summary_total_courses ==
    /\ sumPc = "idle"
    /\ sumLoc' = [total_courses |-> count_documents(dbCourse, NoFilter)]
    /\ sumPc' = "published_courses"
    /\ UNCHANGED resp

admin_summary_published_courses ==
    /\ sumPc = "published_courses"
    /\ sumLoc' = Merge(sumLoc, [published_courses |->
                                 count_documents(dbCourse, [published |-> TRUE])])
    /\ sumPc' = "total_lessons"
    /\ UNCHANGED resp

\* The lesson count read from the course collection.
admin_summary_total_lessons_of_courses ==
    /\ sumPc = "total_lessons"
    /\ sumLoc' = Merge(sumLoc, [total_lessons |-> count_documents(dbCourse, NoFilter)])
    /\ sumPc' = "total_sales"
    /\ UNCHANGED resp

admin_summary_total_lessons ==
    /\ sumPc = "total_lessons"
    /\ sumLoc' = Merge(sumLoc, [total_lessons |-> count_documents(dbLesson, NoFilter)])
    /\ sumPc' = "total_sales"
    /\ UNCHANGED resp

admin_summary_total_sales ==
    /\ sumPc = "total_sales"
    /\ sumLoc' = Merge(sumLoc, [total_sales |->
                                 count_documents(dbOrder, [status |-> "paid"])])
    /\ sumPc' = "revenue"
    /\ UNCHANGED resp

\* The last read, the rounding and the return.
admin_summary_revenue ==
    /\ sumPc = "revenue"
    /\ LET revenue == SumAmount(Find(dbOrder, [status |-> "paid"]))
       IN resp' = Response("admin_summary", <<>>, 200,
                           Merge(sumLoc, [revenue |-> Round2(revenue)]))
    /\ sumPc' = "idle"
    /\ sumLoc' = NoLocals

-----------------------------------------------------------------------------
(* Aggregates of a store state, counted directly on the collections.       *)

RECURSIVE SumCents(_, _)
\* Sum of amount over the documents of o whose index is in idx.
SumCents(o, idx) ==
    IF idx = {} THEN 0
    ELSE LET i == CHOOSE j \in idx : TRUE
         IN o[i].amount + SumCents(o, idx \ {i})

PaidIndexes(o) == { i \in 1..Len(o) : o[i].status = "paid" }

Aggregates(c, l, o) ==
    [total_courses |-> Len(c),
     published_courses |-> Cardinality({ i \in 1..Len(c) : c[i].published }),
     total_lessons |-> Len(l),
     total_sales |-> Cardinality(PaidIndexes(o)),
     revenue |-> SumCents(o, PaidIndexes(o))]

-----------------------------------------------------------------------------
(* The framework's routes: the body is validated, then the handler runs.   *)

post_course(body) ==
    IF CourseValid(body) THEN create_course(body)
    ELSE Unprocessable("create_course", <<>>)

patch_course(course_id, body, now) ==
    IF CourseValid(body) THEN update_course(course_id, body, now)
    ELSE Unprocessable("update_course", course_id)

post_lesson(course_id, body) ==
    IF LessonValid(body) THEN create_lesson(course_id, body)
    ELSE Unprocessable("create_lesson", course_id)

post_order(body) ==
    IF OrderInValid(body) THEN create_order(OrderInDump(body))
    ELSE Unprocessable("create_order", <<>>)

-----------------------------------------------------------------------------
(* Requests: the inputs clients send, and the history kept beside them.    *)

\* The identifier string of the k-th course ever created.
Id(k) == OidStr(NewOid(CourseTag, k))

\* The same identifier written with upper-case hex digits.
Upper(s) == [i \in 1..Len(s) |-> HexUpper[HexVal(s[i]) + 1]]

BadShort == <<"a", "b", "c">>
BadNonHex == [i \in 1..OidHexLen |-> IF i = OidHexLen THEN "g" ELSE "0"]

ClientIds == { Id(k) : k \in 1..MaxCourses } \cup {Upper(Id(1)), BadShort, BadNonHex}
BasicIds == {Id(1)}
LessonPaths == {Id(1), Upper(Id(1)), BadShort}

Times == {1}

CourseBodies ==
    { [title |-> "t1", price |-> 1000, published |-> TRUE, tags |-> <<"t">>],
      [title |-> "t2", price |-> 1550],
      [title |-> "t2", price |-> 0 - 1] }

BasicCourseBodies ==
    { [title |-> "t1", price |-> 1000, published |-> TRUE],
      [title |-> "t2", price |-> 1550] }

LessonBodies ==
    { [course_id |-> cid, title |-> "l", order |-> n] :
          cid \in {Id(1), BadShort}, n \in 1..3 }
    \cup { [course_id |-> Id(1), title |-> "l"], [title |-> "l"] }

BasicLessonBody == [course_id |-> Id(2), title |-> "l"]

OrderBodies ==
    { [course_id |-> cid, buyer_name |-> "n", buyer_email |-> "e"] : cid \in ClientIds }
    \cup { [course_id |-> cid, buyer_name |-> "n", buyer_email |-> "e",
            amount |-> 1, status |-> "pending"] : cid \in {Id(1), BadShort} }
    \cup { [course_id |-> Id(1), buyer_name |-> "n"] }

FirstOrderBody == [course_id |-> Upper(Id(1)), buyer_name |-> "n", buyer_email |-> "e"]

BasicOrderBodies == { [course_id |-> Id(1), buyer_name |-> "n", buyer_email |-> "e"] }

\* A request other than admin_summary has completed. Its store accesses are one
\* step (create_order's lookup and insert are taken together); at most
\* MaxInterleaved requests complete while one admin_summary is in flight.
Track ==
    /\ sumPc # "idle" => during < MaxInterleaved
    /\ UNCHANGED <<sumPc, sumLoc>>
    /\ seen' = IF sumPc # "idle"
               THEN seen \cup {Aggregates(dbCourse', dbLesson', dbOrder')}
               ELSE {}
    /\ during' = IF sumPc # "idle" THEN during + 1 ELSE 0

CreateCourse ==
    /\ nCourse < MaxCourses
    /\ \E body \in CourseBodies : post_course(body) /\ reqBody' = body
    /\ Track

CreateCourseBasic ==
    /\ nCourse < MaxCourses
    /\ \E body \in BasicCourseBodies : post_course(body) /\ reqBody' = body
    /\ Track

GetCourse ==
    /\ \E course_id \in ClientIds : get_course(course_id)
    /\ reqBody' = NoBody
    /\ Track

UpdateCourse ==
    /\ \E course_id \in ClientIds, body \in CourseBodies, now \in Times :
          patch_course(course_id, body, now) /\ reqBody' = body
    /\ Track

UpdateCourseBasic ==
    /\ \E course_id \in BasicIds, body \in BasicCourseBodies, now \in Times :
          patch_course(course_id, body, now) /\ reqBody' = body
    /\ Track

DeleteCourse ==
    /\ \E course_id \in ClientIds : delete_course(course_id)
    /\ reqBody' = NoBody
    /\ Track

DeleteCourseBasic ==
    /\ \E course_id \in BasicIds : delete_course(course_id)
    /\ reqBody' = NoBody
    /\ Track

CreateLesson ==
    /\ Len(dbLesson) < MaxLessons
    /\ \E course_id \in LessonPaths, body \in LessonBodies :
          post_lesson(course_id, body) /\ reqBody' = body
    /\ Track

CreateLessonBasic ==
    /\ Len(dbLesson) < MaxBasicLessons
    /\ post_lesson(Id(1), BasicLessonBody)
    /\ reqBody' = BasicLessonBody
    /\ Track

ListLessons ==
    /\ \E course_id \in LessonPaths : list_lessons(course_id)
    /\ reqBody' = NoBody
    /\ Track

CreateOrder ==
    /\ Len(dbOrder) < MaxOrders
    /\ \E body \in OrderBodies : post_order(body) /\ reqBody' = body
    /\ Track

CreateOrderBasic ==
    /\ Len(dbOrder) < MaxOrders
    /\ \E body \in BasicOrderBodies : post_order(body) /\ reqBody' = body
    /\ Track

CreateOrderFirst ==
    /\ Len(dbOrder) < MaxBasicOrders
    /\ post_order(FirstOrderBody)
    /\ reqBody' = FirstOrderBody
    /\ Track

\* GET /api/admin/summary arrives and makes its first read.
AdminSummaryBegin ==
    /\ admin_summary_total_courses
    /\ seen' = {Aggregates(dbCourse, dbLesson, dbOrder)}
    /\ during' = 0
    /\ UNCHANGED <<dbCourse, dbLesson, dbOrder, nCourse, lessonPath, reqBody>>

\* One of its later reads; the last one returns the response.
AdminSummaryRead ==
    /\ \/ admin_summary_published_courses
       \/ admin_summary_total_lessons
       \/ admin_summary_total_sales
       \/ admin_summary_revenue
    /\ reqBody' = IF sumPc' = "idle" THEN NoBody ELSE reqBody
    /\ UNCHANGED <<dbCourse, dbLesson, dbOrder, nCourse, lessonPath, seen, during>>

-----------------------------------------------------------------------------
(* Specifications.                                                         *)

Init ==
    /\ dbCourse = <<>>
    /\ dbLesson = <<>>
    /\ dbOrder = <<>>
    /\ nCourse = 0
    /\ resp = Response("none", <<>>, 0, "")
    /\ sumPc = "idle"
    /\ sumLoc = NoLocals
    /\ lessonPath = <<>>
    /\ seen = {}
    /\ during = 0
    /\ reqBody = NoBody

\* Course management, with a few lessons and orders beside it.
Next ==
    \/ CreateCourse
    \/ GetCourse
    \/ UpdateCourse
    \/ DeleteCourse
    \/ CreateLessonBasic
    \/ CreateOrderFirst

Spec == Init /\ [][Next]_vars

\* Checkout against courses that are created, repriced and deleted.
NextOrders ==
    \/ CreateCourseBasic
    \/ UpdateCourseBasic
    \/ DeleteCourseBasic
    \/ CreateOrder

SpecOrders == Init /\ [][NextOrders]_vars

\* Lessons created under, and listed by, path identifiers.
NextLessons ==
    \/ CreateLesson
    \/ ListLessons

SpecLessons == Init /\ [][NextLessons]_vars

\* The admin summary running beside requests that change the store.
NextSummary ==
    \/ CreateCourseBasic
    \/ UpdateCourseBasic
    \/ DeleteCourseBasic
    \/ CreateLessonBasic
    \/ CreateOrderBasic
    \/ AdminSummaryBegin
    \/ AdminSummaryRead

SpecSummary == Init /\ [][NextSummary]_vars

-----------------------------------------------------------------------------
(* Properties.  A step is told by the response it leaves: every request    *)
(* writes resp with its own op, its path identifier and its status.        *)

\* The identifier string s names the stored document doc.
Identifies(s, doc) == ObjectIdValid(s) /\ ObjectId(s) = doc._id

\* The strings among the clients' identifiers that are not well-formed.
Malformed(s) == s \in {BadShort, BadNonHex}

Stored(s) ==
    /\ ObjectIdValid(s)
    /\ LET oid == ObjectId(s) IN \E i \in 1..Len(dbCourse) : dbCourse[i]._id = oid

\* C1: every successful Create Order appends one order whose amount is the
\* price stored for the referenced course when the order is created and whose
\* status is "paid", whatever the body carries; so every stored order has
\* status "paid" and an amount >= 0.
C1_OrderAmountIsCoursePrice ==
    [][ (resp'.op = "create_order" /\ resp'.status = 200) =>
          /\ Len(dbOrder') = Len(dbOrder) + 1
          /\ SubSeq(dbOrder', 1, Len(dbOrder)) = dbOrder
          /\ LET o == dbOrder'[Len(dbOrder')]
             IN /\ o.status = "paid"
                /\ o.course_id = reqBody'.course_id
                /\ \E i \in 1..Len(dbCourse) :
                      /\ Identifies(o.course_id, dbCourse[i])
                      /\ o.amount = dbCourse[i].price
          /\ \A j \in 1..Len(dbOrder') :
                dbOrder'[j].status = "paid" /\ dbOrder'[j].amount >= 0 ]_vars

\* An order was just created from a body that carries its own amount and
\* status, for a course that an earlier order bought at another price.
C1_Witness ==
    /\ resp.op = "create_order" /\ resp.status = 200
    /\ {"amount", "status"} \subseteq DOMAIN reqBody
    /\ Len(dbOrder) = 2
    /\ dbOrder[2].amount # reqBody.amount
    /\ ObjectId(dbOrder[1].course_id) = ObjectId(dbOrder[2].course_id)
    /\ dbOrder[1].amount # dbOrder[2].amount

\* C2: Create Order with a course_id that identifies no stored course (never
\* created, deleted, or not well-formed) answers 404 and stores no order.
C2_UnknownCourseIsNotFound ==
    [][ (resp'.op = "create_order" /\ resp'.status # 422 /\ ~Stored(resp'.arg)) =>
          resp'.status = 404 /\ dbOrder' = dbOrder ]_vars

\* A step of Get, Update or Delete Course whose handler was entered.
CourseStep(ops) == resp'.op \in ops /\ resp'.status # 422

\* C3: Get, Update and Delete Course with a malformed identifier answer 400,
\* never 404, whatever the store holds, and change no collection.
C3_MalformedIdIsInvalidIdentifier ==
    [][ (CourseStep({"get_course", "update_course", "delete_course"})
         /\ Malformed(resp'.arg)) =>
          /\ resp'.status = 400
          /\ UNCHANGED <<dbCourse, dbLesson, dbOrder>> ]_vars

\* An update with a malformed identifier was refused while every collection
\* held documents.
C3_Witness ==
    /\ resp.op = "update_course" /\ resp.status = 400
    /\ resp.arg = BadNonHex
    /\ dbCourse # <<>> /\ dbLesson # <<>> /\ dbOrder # <<>>

\* The identifiers the store assigns to courses, in the order it assigns them.
CourseOids == [k \in 1..MaxCourses |-> NewOid(CourseTag, k)]

\* The position of the course an identifier string names, 0 if none.
Position(s) ==
    IF Stored(s) THEN CHOOSE i \in 1..Len(dbCourse) : Identifies(s, dbCourse[i]) ELSE 0

\* C4: a successful Update Course sets the fields the body provides and the
\* modification timestamp, and keeps every other field of the course as stored.
C4_UpdateKeepsUnprovidedFields ==
    [][ (resp'.op = "update_course" /\ resp'.status = 200) =>
          LET k == Position(resp'.arg)
          IN /\ Len(dbCourse') = Len(dbCourse)
             /\ \A f \in DOMAIN reqBody' : dbCourse'[k][f] = reqBody'[f]
             /\ "updated_at" \in DOMAIN dbCourse'[k]
             /\ \A f \in DOMAIN dbCourse[k] \ (DOMAIN reqBody' \cup {"updated_at"}) :
                   dbCourse'[k][f] = dbCourse[k][f] ]_vars

\* C5: Update and Delete Course with a well-formed identifier that names no
\* stored course answer 404 and leave the courses as they are; a successful
\* Delete removes exactly the named course, after which the identifier names
\* no stored course and is never assigned again, so that Get, Update and Delete
\* of it answer 404.
C5_UnknownCourseIsNotFound ==
    [][ /\ (CourseStep({"get_course", "update_course", "delete_course"})
            /\ ObjectIdValid(resp'.arg) /\ ~Stored(resp'.arg)) =>
              resp'.status = 404 /\ dbCourse' = dbCourse
        /\ (resp'.op = "delete_course" /\ resp'.status = 200) =>
              LET k == Position(resp'.arg)
              IN /\ k > 0
                 /\ Len(dbCourse') = Len(dbCourse) - 1
                 /\ \A i \in 1..Len(dbCourse') :
                       dbCourse'[i] = dbCourse[IF i < k THEN i ELSE i + 1]
                 /\ \A i \in 1..Len(dbCourse') : ~Identifies(resp'.arg, dbCourse'[i])
        /\ \A i \in 1..Len(dbCourse') :
              \/ \E j \in 1..Len(dbCourse) : dbCourse[j]._id = dbCourse'[i]._id
              \/ \A k \in 1..nCourse : dbCourse'[i]._id # CourseOids[k] ]_vars

\* Delete of a course that was created and is already deleted answered 404
\* while another course is stored.
C5_Witness ==
    /\ resp.op = "delete_course" /\ resp.status = 404
    /\ resp.arg = Upper(Id(1))
    /\ nCourse = 2 /\ Len(dbCourse) = 1

\* The position in the store of a listed lesson.
StorePosition(x) == CHOOSE i \in 1..Len(dbLesson) : OidStr(dbLesson[i]._id) = x.id

\* C7: List Lessons returns exactly the stored lessons whose course_id is the
\* given one, ascending by order, lessons of equal order in insertion order.
C7_ListLessonsSortedStable ==
    resp.op = "list_lessons" =>
        LET r == resp.body
            idx == { i \in 1..Len(dbLesson) : dbLesson[i].course_id = resp.arg }
        IN /\ resp.status = 200
           /\ Len(r) = Cardinality(idx)
           /\ \A i \in idx : \E j \in 1..Len(r) :
                 /\ r[j].id = OidStr(dbLesson[i]._id)
                 /\ \A f \in DOMAIN dbLesson[i] \ {"_id"} : r[j][f] = dbLesson[i][f]
           /\ \A j, k \in 1..Len(r) :
                 j < k => \/ r[j].order < r[k].order
                          \/ /\ r[j].order = r[k].order
                             /\ StorePosition(r[j]) < StorePosition(r[k])

\* Three lessons of one course, stored with orders 2, 1, 2, were listed as
\* 1, 2, 2 with the two of order 2 in insertion order.
C7_Witness ==
    /\ resp.op = "list_lessons"
    /\ Len(dbLesson) = 3
    /\ <<dbLesson[1].order, dbLesson[2].order, dbLesson[3].order>> = <<2, 1, 2>>
    /\ Len(resp.body) = 3
    /\ <<resp.body[1].id, resp.body[2].id, resp.body[3].id>>
         = <<OidStr(dbLesson[2]._id), OidStr(dbLesson[1]._id), OidStr(dbLesson[3]._id)>>

\* C8: Create Lesson stores the lesson under the path identifier, whatever
\* course_id the body carries and whether or not a course has that identifier;
\* so every stored lesson's course_id is the path it was created under, and
\* List Lessons(c) returns exactly the lessons created under c.
C8_LessonCourseIdIsPath ==
    [][ /\ (resp'.op = "create_lesson" /\ resp'.status # 422) =>
              /\ resp'.status = 200
              /\ Len(dbLesson') = Len(dbLesson) + 1
              /\ dbLesson'[Len(dbLesson')].course_id = resp'.arg
        /\ Len(lessonPath') = Len(dbLesson')
        /\ \A i \in 1..Len(dbLesson') : dbLesson'[i].course_id = lessonPath'[i]
        /\ resp'.op = "list_lessons" =>
              { resp'.body[j].id : j \in 1..Len(resp'.body) }
                = { OidStr(dbLesson'[i]._id) :
                       i \in { n \in 1..Len(lessonPath') : lessonPath'[n] = resp'.arg } }
      ]_vars

\* A lesson whose body names one course was stored under a path that is no
\* identifier of any course, beside a lesson of another path.
C8_Witness ==
    /\ resp.op = "create_lesson" /\ resp.status = 200
    /\ resp.arg = BadShort
    /\ reqBody.course_id = Id(1)
    /\ Len(dbLesson) = 2
    /\ dbLesson[2].course_id = BadShort
    /\ dbLesson[1].course_id = Upper(Id(1))
    /\ dbCourse = <<>>

\* admin_summary has returned and no request has overwritten its response.
Returned == resp.op = "admin_summary" /\ sumPc = "idle"

SummaryFields ==
    {"total_courses", "published_courses", "total_lessons", "total_sales", "revenue"}

\* C6: an Admin Summary during which no other request completed returns the
\* aggregates of the store: the numbers of courses, of published courses, of
\* lessons and of paid orders, and the sum of the paid orders' amounts; and no
\* step of the summary changes a collection.
C6_QuietSummaryIsExact ==
    [][ /\ (Returned' /\ during' = 0) =>
              resp'.body = Aggregates(dbCourse', dbLesson', dbOrder')
        /\ sumPc' # sumPc => UNCHANGED <<dbCourse, dbLesson, dbOrder>> ]_vars

\* A quiet summary over two courses, one of them published, one lesson and two
\* paid orders of 10.00 and 15.50 returned revenue 25.50.
C6_Witness ==
    /\ Returned /\ during = 0
    /\ resp.body = [total_courses |-> 2, published_courses |-> 1, total_lessons |-> 1,
                    total_sales |-> 2, revenue |-> 2550]
    /\ { dbOrder[i].amount : i \in 1..Len(dbOrder) } = {1000, 1550}

\* C9: Delete Course changes neither the lessons nor the orders, so what List
\* Lessons returns for the deleted identifier stays the same, and a quiet Admin
\* Summary counts every stored lesson and order, orphaned or not.
C9_DeleteDoesNotCascade ==
    [][ /\ resp'.op = "delete_course" =>
              /\ dbLesson' = dbLesson
              /\ dbOrder' = dbOrder
              /\ ListLessonsResult(dbLesson', resp'.arg)
                   = ListLessonsResult(dbLesson, resp'.arg)
        /\ (Returned' /\ during' = 0) =>
              /\ resp'.body.total_lessons = Len(dbLesson')
              /\ resp'.body.total_sales = Len(dbOrder')
              /\ resp'.body.revenue = SumCents(dbOrder', 1..Len(dbOrder')) ]_vars

\* After the first course was deleted, its lesson is still listed and a quiet
\* summary counted the lesson and the order that reference it.
C9_Witness ==
    /\ Returned /\ during = 0
    /\ nCourse >= 1 /\ ~Stored(Id(1))
    /\ \E i \in 1..Len(dbLesson) : dbLesson[i].course_id = Id(1)
    /\ \E i \in 1..Len(dbOrder) : dbOrder[i].course_id = Id(1)
    /\ Len(ListLessonsResult(dbLesson, Id(1))) = 1
    /\ resp.body.total_lessons = 1
    /\ resp.body.total_sales = Len(dbOrder)
    /\ resp.body.revenue >= 1000

\* C10 as stated: a summary interleaved with other requests returns the
\* aggregates of one store state that existed during the call; in particular
\* published_courses <= total_courses.
C10_SummaryIsOneState ==
    Returned =>
        /\ resp.body \in seen
        /\ resp.body.published_courses <= resp.body.total_courses

\* C10 amended: each returned value is the aggregate of some store state that
\* existed during the call, not necessarily the same state for all five; the
\* revenue is that of a state with at least total_sales paid orders.
C10_SummaryFieldsAreSeen ==
    Returned =>
        /\ \A f \in SummaryFields : \E a \in seen : a[f] = resp.body[f]
        /\ \E a \in seen :
              a.revenue = resp.body.revenue /\ a.total_sales >= resp.body.total_sales

\* A summary that ran beside another request returned more published courses
\* than courses: the aggregates of no state that existed during the call.
C10_Witness ==
    /\ Returned /\ during > 0
    /\ resp.body \notin seen
    /\ resp.body.published_courses > resp.body.total_courses

=============================================================================
